---------------------------- MODULE Spec2Model ----------------------------
(***************************************************************************)
(* N-dimensional chess: the move generators, the turn and capture state    *)
(* machine and the dimension / view controller of                          *)
(* static/n_dimensional_chess.js, with the keyboard entry points of        *)
(* static/keyboard_controller.js.                                          *)
(*                                                                         *)
(* JavaScript arrays are modelled as 1-based sequences; a dimension index  *)
(* d of the source is position d + 1 of the sequence.  The two non-integer *)
(* values a coordinate component can take in the source (undefined / an    *)
(* array hole, and NaN = undefined + n) are the sentinels Undef and NaN.   *)
(* A coordinate key is coords.join(','), which is injective on the arrays  *)
(* that occur here, so a key is modelled by the coordinate sequence.       *)
(***************************************************************************)
EXTENDS Integers, Sequences, FiniteSets, TLC

VARIABLES
    activeDimensions,     \* let activeDimensions = [0, 1, 2]
    viewDimensions,       \* let viewDimensions = [0, 1, 2]
    dimensionalFatigue,   \* let dimensionalFatigue = true
    board,                \* the tiles, as the configuration they were generated from
    pieces,               \* key -> piece
    selectedPiece,        \* null or {key, piece, coords}
    validMoves,           \* list of coordinates cached at select
    currentTurn,          \* "white" / "black"
    capturedPieces,       \* colour -> list of {type, color}
    sliceCoordinates,     \* visualizationControls.sliceCoordinates
    totalComplexityScore, \* in tenths of a point
    viewMode,             \* value of #view-mode-select
    selectorOptions,      \* dimensions offered by the three axis selectors
    ySelectorShown,       \* the Y axis selector is displayed
    lastEvent,            \* what the last handler did (alert, exception, ...)
    moves,                \* number of committed moves so far
    ops                   \* number of handler runs that are bounded by MaxOps

vars == <<activeDimensions, viewDimensions, dimensionalFatigue, board, pieces,
          selectedPiece, validMoves, currentTurn, capturedPieces,
          sliceCoordinates, totalComplexityScore, viewMode, selectorOptions,
          ySelectorShown, lastEvent, moves, ops>>

---------------------------------------------------------------------------
(* Bounds of the model *)

\* committed moves, dimension, view, slice and fatigue operations in one run
MaxOps == 3

---------------------------------------------------------------------------
(* Program constants *)

MAX_DIMENSIONS == 6
DEFAULT_DIMENSIONS == 3

WHITE == "white"
BLACK == "black"
PIECE_COLORS == {WHITE, BLACK}

PIECE_TYPES == {"pawn", "rook", "knight", "bishop", "queen", "king",
                "hyperrook", "hyperbishop", "hyperknight"}

\* the value of undefined + n and of every arithmetic on it
NaN == 1000
\* undefined, and an array hole (both join to the empty string)
Undef == 1001

NoPiece == [type |-> "none", color |-> "none", coords |-> <<>>]
NoSelection == [key |-> <<>>, type |-> "none", color |-> "none", coords |-> <<>>]

---------------------------------------------------------------------------
(* JavaScript array and number helpers *)

Max2(a, b) == IF a >= b THEN a ELSE b
Min2(a, b) == IF a <= b THEN a ELSE b

\* a[d], undefined beyond the end of the array
At(a, d) == IF d >= 0 /\ d < Len(a) THEN a[d + 1] ELSE Undef

\* v + k on numbers, NaN as soon as v is undefined or NaN
Plus(v, k) == IF v = NaN \/ v = Undef THEN NaN ELSE v + k

\* a[d] = v, growing the array with holes when d is beyond its end
SetAt(a, d, v) ==
    IF d < Len(a) THEN [a EXCEPT ![d + 1] = v]
    ELSE [i \in 1..(d + 1) |-> IF i = d + 1 THEN v ELSE At(a, i - 1)]

\* a[d] += k
Bump(a, d, k) == SetAt(a, d, Plus(At(a, d), k))

\* a.includes(v)
Includes(a, v) == \E i \in 1..Len(a) : a[i] = v

\* a.indexOf(v), -1 when absent
IndexOf(a, v) ==
    IF Includes(a, v) THEN (CHOOSE i \in 1..Len(a) :
                               a[i] = v /\ \A j \in 1..(i - 1) : a[j] # v) - 1
    ELSE -1

\* Array(n).fill(v)
Fill(n, v) == [i \in 1..n |-> v]

\* a === b on coordinate components: NaN is not equal to itself
StrictEq(a, b) == a # NaN /\ b # NaN /\ a = b

\* a.splice(index, 2): the element after index goes as well
SpliceTwo(a, index) ==
    [i \in 1..Max2(Len(a) - 2, index) |-> IF i <= index THEN a[i] ELSE a[i + 2]]

\* a.splice(index, 1)
Splice(a, index) ==
    [i \in 1..(Len(a) - 1) |-> IF i <= index THEN a[i] ELSE a[i + 1]]

\* concatenation of a list of lists: the order in which nested loops push
RECURSIVE Cat(_)
Cat(ss) == IF ss = <<>> THEN <<>> ELSE Head(ss) \o Cat(Tail(ss))

\* Array.prototype.sort() without a comparator orders by the decimal string
\* of each element; the elements here are -1..9, whose strings order as the
\* numbers do
RECURSIVE JsSort(_)
JsSort(a) ==
    IF a = <<>> THEN <<>>
    ELSE LET m == CHOOSE i \in 1..Len(a) :
                     /\ \A j \in 1..Len(a) : a[i] <= a[j]
                     /\ \A j \in 1..(i - 1) : a[j] # a[i]
         IN  <<a[m]>> \o JsSort([i \in 1..(Len(a) - 1) |->
                                     IF i < m THEN a[i] ELSE a[i + 1]])

---------------------------------------------------------------------------
(* Occupancy *)

\* pieces[coords.join(',')]
getPieceAt(coords) ==
    IF coords \in DOMAIN pieces THEN pieces[coords] ELSE NoPiece

canCapture(coords, color) ==
    getPieceAt(coords) # NoPiece /\ getPieceAt(coords).color # color

\* the entry createPiece stores under coords.join(',')
createPiece(coords, type, color) ==
    [type |-> type, color |-> color, coords |-> coords]

backRank == <<"rook", "knight", "bishop", "queen", "king", "bishop",
              "knight", "rook">>

\* the 32 pieces of createStandardChessPieces with three active dimensions
createStandardChessPieces ==
    LET keys == {<<x, z, 0>> : x \in 0..7, z \in {-7, -6, -1, 0}}
    IN  [k \in keys |->
            IF k[2] = -7 THEN createPiece(k, backRank[k[1] + 1], BLACK)
            ELSE IF k[2] = -6 THEN createPiece(k, "pawn", BLACK)
            ELSE IF k[2] = 0 THEN createPiece(k, backRank[k[1] + 1], WHITE)
            ELSE createPiece(k, "pawn", WHITE)]

\* createHyperpieces with n active dimensions: a hyperrook, a hyperbishop and
\* a hyperknight per colour, each with 1 in the fourth slot; nothing when no
\* more than three dimensions are active
createHyperpieces(n) ==
    IF n <= 3 THEN [k \in {} |-> NoPiece]
    ELSE LET at(x, z) == SetAt(SetAt(SetAt(Fill(n, 0), 0, x), 1, z), 3, 1)
             row(color) == IF color = WHITE THEN 1 ELSE -8
             kind(x) == IF x = 1 THEN "hyperrook"
                        ELSE IF x = 2 THEN "hyperbishop" ELSE "hyperknight"
             keys == {at(x, row(color)) : x \in 1..3, color \in PIECE_COLORS}
         IN  [k \in keys |->
                 createPiece(k, kind(k[1]), IF k[2] = 1 THEN WHITE ELSE BLACK)]

\* initializeBoard, which init() calls once, with the active dimensions of
\* that moment (the initial [0, 1, 2])
initializeBoard(active) ==
    IF Len(active) > 3
    THEN createHyperpieces(Len(active)) @@ createStandardChessPieces
    ELSE createStandardChessPieces

---------------------------------------------------------------------------
(* Move generators.  Each returns the list that the source pushes onto     *)
(* validMoves, in push order and with the duplicates it pushes.            *)

\* "viewDimensions.length < 3 && !viewDimensions.includes(dim)"
restrictedOut(dim) == Len(viewDimensions) < 3 /\ ~Includes(viewDimensions, dim)

calculatePawnMoves(coords, color) ==
    LET direction == IF color = WHITE THEN -1 ELSE 1
        forwardDimension == 1
        forward == Bump(coords, forwardDimension, direction)
        startingRank == IF color = WHITE THEN -1 ELSE -6
        doubleForward == Bump(coords, forwardDimension, 2 * direction)
        captureLeft == Bump(Bump(coords, 0, -1), forwardDimension, direction)
        captureRight == Bump(Bump(coords, 0, 1), forwardDimension, direction)
    IN  (IF getPieceAt(forward) = NoPiece
         THEN <<forward>> \o
              (IF StrictEq(At(coords, forwardDimension), startingRank)
                  /\ getPieceAt(doubleForward) = NoPiece
               THEN <<doubleForward>> ELSE <<>>)
         ELSE <<>>)
        \o (IF canCapture(captureLeft, color) THEN <<captureLeft>> ELSE <<>>)
        \o (IF canCapture(captureRight, color) THEN <<captureRight>> ELSE <<>>)

\* newCoords = [...coords]; newCoords[dim] += dir * i for every <<dim, dir>>
RECURSIVE shifted(_, _, _)
shifted(coords, dirs, i) ==
    IF dirs = <<>> THEN coords
    ELSE shifted(Bump(coords, Head(dirs)[1], Head(dirs)[2] * i), Tail(dirs), i)

\* a scan that pushes the square of the first piece it meets, friend or foe
RECURSIVE slideOntoFriend(_, _, _, _, _)
slideOntoFriend(coords, dirs, i, moveRange, color) ==
    IF i > moveRange THEN <<>>
    ELSE LET newCoords == shifted(coords, dirs, i)
         IN  IF getPieceAt(newCoords) = NoPiece
             THEN <<newCoords>>
                  \o slideOntoFriend(coords, dirs, i + 1, moveRange, color)
             ELSE <<newCoords>>

\* the loop "for (let i = 1; i <= moveRange; i++)" of the rook and bishop
\* scans: push while empty, push an enemy square and stop, stop at a friend
RECURSIVE slide(_, _, _, _, _)
slide(coords, dirs, i, moveRange, color) ==
    IF i > moveRange THEN <<>>
    ELSE LET newCoords == shifted(coords, dirs, i)
             piece == getPieceAt(newCoords)
         IN  IF piece = NoPiece
             THEN <<newCoords>> \o slide(coords, dirs, i + 1, moveRange, color)
             ELSE IF piece.color # color THEN <<newCoords>>
             ELSE <<>>

\* the fatigue range used whether or not fatigue is on, and from the first
\* dimension on
rookMoveRangeFatigued(dim) == Max2(7 - dim, 2)

\* moveRange of calculateRookMoves for the dimension at index dim
rookMoveRange(dim) ==
    IF dimensionalFatigue THEN Max2(7 - (IF dim > 2 THEN dim ELSE 0), 2) ELSE 7

calculateRookMoves(coords, color) ==
    Cat([d \in 1..Len(activeDimensions) |->
        LET dim == d - 1 IN
        IF restrictedOut(dim) THEN <<>>
        ELSE slide(coords, << <<dim, 1>> >>, 1, rookMoveRange(dim), color)
             \o slide(coords, << <<dim, -1>> >>, 1, rookMoveRange(dim), color)])

\* a round that pushes move1 only and only for a positive long step
knightRoundPositive(coords, color, dim1, dim2, d1, d2) ==
    LET move1 == Bump(Bump(coords, dim1, d1), dim2, d2)
        piece1 == getPieceAt(move1)
    IN  IF d1 > 0 /\ (piece1 = NoPiece \/ piece1.color # color)
        THEN <<move1>> ELSE <<>>

\* the four pushes of one (d1, d2) round of calculateKnightMoves
knightRound(coords, color, dim1, dim2, d1, d2) ==
    LET move1 == Bump(Bump(coords, dim1, d1), dim2, d2)
        move2 == Bump(Bump(coords, dim1, d2), dim2, d1)
        piece1 == getPieceAt(move1)
        piece2 == getPieceAt(move2)
    IN  (IF piece1 = NoPiece \/ piece1.color # color THEN <<move1>> ELSE <<>>)
        \o (IF piece2 = NoPiece \/ piece2.color # color THEN <<move2>> ELSE <<>>)

calculateKnightMoves(coords, color) ==
    Cat([a \in 1..Len(activeDimensions) |->
      Cat([b \in 1..Len(activeDimensions) |->
        LET dim1 == a - 1
            dim2 == b - 1
        IN  IF dim1 = dim2 THEN <<>>
            ELSE IF Len(viewDimensions) < 3
                    /\ (~Includes(viewDimensions, dim1)
                        \/ ~Includes(viewDimensions, dim2)) THEN <<>>
            ELSE knightRound(coords, color, dim1, dim2, -2, -1)
                 \o knightRound(coords, color, dim1, dim2, -2, 1)
                 \o knightRound(coords, color, dim1, dim2, 2, -1)
                 \o knightRound(coords, color, dim1, dim2, 2, 1)])])

bishopMoveRange(dim1, dim2) ==
    IF dimensionalFatigue
    THEN Max2(7 - (IF Max2(dim1, dim2) > 2 THEN 1 ELSE 0), 3)
    ELSE 7

calculateBishopMoves(coords, color) ==
    Cat([a \in 1..Len(activeDimensions) |->
      Cat([b \in 1..Len(activeDimensions) |->
        LET dim1 == a - 1
            dim2 == b - 1
            r == bishopMoveRange(dim1, dim2)
        IN  IF dim2 < dim1 + 1 THEN <<>>
            ELSE IF Len(viewDimensions) < 3
                    /\ (~Includes(viewDimensions, dim1)
                        \/ ~Includes(viewDimensions, dim2)) THEN <<>>
            ELSE slide(coords, << <<dim1, -1>>, <<dim2, -1>> >>, 1, r, color)
                 \o slide(coords, << <<dim1, -1>>, <<dim2, 1>> >>, 1, r, color)
                 \o slide(coords, << <<dim1, 1>>, <<dim2, -1>> >>, 1, r, color)
                 \o slide(coords, << <<dim1, 1>>, <<dim2, 1>> >>, 1, r, color)])])

calculateQueenMoves(coords, color) ==
    calculateRookMoves(coords, color) \o calculateBishopMoves(coords, color)

\* the recursive helper generateMoves of calculateKingMoves
RECURSIVE generateMoves(_, _, _)
generateMoves(coords, currentDim, currentMove) ==
    IF currentDim >= Len(activeDimensions)
    THEN IF \A idx \in 0..(Len(currentMove) - 1) :
                StrictEq(At(currentMove, idx), At(coords, idx))
         THEN <<>> ELSE <<currentMove>>
    ELSE IF restrictedOut(currentDim)
    THEN generateMoves(coords, currentDim + 1,
                       SetAt(currentMove, currentDim, At(coords, currentDim)))
    ELSE Cat([k \in 1..3 |->
            generateMoves(coords, currentDim + 1,
                SetAt(currentMove, currentDim,
                      Plus(At(coords, currentDim), k - 2)))])

\* the king's filter left out: every generated square is kept
keepFriendly(ms, color) == ms

\* moves.filter: not onto a friendly piece
RECURSIVE notFriendly(_, _)
notFriendly(ms, color) ==
    IF ms = <<>> THEN <<>>
    ELSE LET piece == getPieceAt(Head(ms))
         IN  (IF piece = NoPiece \/ piece.color # color
              THEN <<Head(ms)>> ELSE <<>>) \o notFriendly(Tail(ms), color)

calculateKingMoves(coords, color) ==
    notFriendly(generateMoves(coords, 0, Fill(Len(activeDimensions), 0)), color)

\* 2^k and 1.5^k * 2^k
Pow2(k) == IF k <= 0 THEN 1 ELSE IF k = 1 THEN 2 ELSE IF k = 2 THEN 4
           ELSE IF k = 3 THEN 8 ELSE IF k = 4 THEN 16 ELSE IF k = 5 THEN 32
           ELSE IF k = 6 THEN 64 ELSE 128

\* the range halved for every dimension used beyond the first,
\* floor(7 / 2^(dimsUsed - 1)), whether or not fatigue is on
hyperrookRangeHalved(dimsUsed) == 7 \div Pow2(dimsUsed - 1)

\* "range" of generateMultiDimMoves for a move that uses dimsUsed dimensions
hyperrookRange(dimsUsed) ==
    IF dimensionalFatigue THEN Max2(7 - Pow2(dimsUsed - 2), 2)
    ELSE 7 - dimsUsed

\* the loop over dim in generateDirections' base case:
\* "if (dimFlags[dim] === 1) move[dim] += directions[dim] * distance"
RECURSIVE moveAlong(_, _, _, _, _)
moveAlong(move, dimFlags, directions, distance, dim) ==
    IF dim >= Len(activeDimensions) THEN move
    ELSE moveAlong(IF At(dimFlags, dim) = 1
                   THEN Bump(move, dim, At(directions, dim) * distance)
                   ELSE move,
                   dimFlags, directions, distance, dim + 1)

RECURSIVE generateDirections(_, _, _, _, _, _)
generateDirections(coords, color, currentDim, dimFlags, distance, directions) ==
    IF currentDim >= Len(dimFlags)
    THEN LET move == moveAlong(coords, dimFlags, directions, distance, 0)
             isMoveValid == \E dim \in 0..(Len(activeDimensions) - 1) :
                                At(dimFlags, dim) = 1
             piece == getPieceAt(move)
         IN  IF isMoveValid /\ (piece = NoPiece \/ piece.color # color)
             THEN <<move>> ELSE <<>>
    ELSE IF At(dimFlags, currentDim) = 0
    THEN generateDirections(coords, color, currentDim + 1, dimFlags, distance,
                            SetAt(directions, currentDim, 0))
    ELSE generateDirections(coords, color, currentDim + 1, dimFlags, distance,
                            SetAt(directions, currentDim, 1))
         \o generateDirections(coords, color, currentDim + 1, dimFlags,
                               distance, SetAt(directions, currentDim, -1))

generateMovesWithRange(coords, color, dimFlags, range) ==
    Cat([distance \in 1..range |->
            generateDirections(coords, color, 0, dimFlags, distance,
                               Fill(Len(dimFlags), 0))])

RECURSIVE generateMultiDimMoves(_, _, _, _, _)
generateMultiDimMoves(coords, color, currentDim, dimsUsed, currentMove) ==
    IF currentDim >= Len(activeDimensions)
    THEN IF dimsUsed >= 2
         THEN generateMovesWithRange(coords, color, currentMove,
                                     hyperrookRange(dimsUsed))
         ELSE <<>>
    ELSE generateMultiDimMoves(coords, color, currentDim + 1, dimsUsed,
                               Append(currentMove, 0))
         \o generateMultiDimMoves(coords, color, currentDim + 1, dimsUsed + 1,
                                  Append(currentMove, 1))

\* offsets of the dimensional transport loop, 0 skipped
transportOffsets == <<-3, -2, -1, 1, 2, 3>>

\* "dimensional transport": activeDimensions.filter(dim => dim >= 3), each
\* shifted by -3..3 with only the landing square examined
dimensionalTransport(coords, color) ==
    IF Len(activeDimensions) > 3
    THEN Cat([a \in 1..Len(activeDimensions) |->
            IF activeDimensions[a] >= 3
            THEN Cat([o \in 1..6 |->
                    LET move == Bump(coords, activeDimensions[a],
                                     transportOffsets[o])
                        piece == getPieceAt(move)
                    IN  IF piece = NoPiece \/ piece.color # color
                        THEN <<move>> ELSE <<>>])
            ELSE <<>>])
    ELSE <<>>

calculateHyperrookMoves(coords, color) ==
    calculateRookMoves(coords, color)
    \o generateMultiDimMoves(coords, color, 0, 0, <<>>)
    \o dimensionalTransport(coords, color)

\* move[dim] += direction * distance over the chosen dimensions, the sign of
\* dimension i taken from bit i of dirIdx
RECURSIVE hyperDiagonal(_, _, _, _, _)
hyperDiagonal(move, dimensions, dirIdx, distance, i) ==
    IF i >= Len(dimensions) THEN move
    ELSE hyperDiagonal(
            Bump(move, At(dimensions, i),
                 (IF (dirIdx \div Pow2(i)) % 2 = 1 THEN 1 ELSE -1) * distance),
            dimensions, dirIdx, distance, i + 1)

generateHyperDiagonals(coords, color, dimensions, distance) ==
    IF Len(dimensions) < 3 THEN <<>>
    ELSE Cat([n \in 1..Pow2(Len(dimensions)) |->
            LET move == hyperDiagonal(coords, dimensions, n - 1, distance, 0)
                piece == getPieceAt(move)
            IN  IF piece = NoPiece \/ piece.color # color
                THEN <<move>> ELSE <<>>])

hyperbishopMoveRange(numDims) ==
    IF dimensionalFatigue THEN Max2(7 - Pow2(numDims - 3), 2)
    ELSE 7 - numDims + 2

RECURSIVE generateDimensionCombinations(_, _, _, _)
generateDimensionCombinations(coords, color, start, current) ==
    (IF Len(current) >= 3
     THEN Cat([distance \in 1..hyperbishopMoveRange(Len(current)) |->
                generateHyperDiagonals(coords, color, current, distance)])
     ELSE <<>>)
    \o (IF Len(current) < Len(activeDimensions)
        THEN Cat([k \in 1..Max2(Len(activeDimensions) - start, 0) |->
                LET i == start + k - 1
                IN  generateDimensionCombinations(coords, color, i + 1,
                                                  Append(current, i))])
        ELSE <<>>)

calculateHyperbishopMoves(coords, color) ==
    calculateBishopMoves(coords, color)
    \o (IF Len(activeDimensions) >= 3
        THEN generateDimensionCombinations(coords, color, 0, <<>>)
        ELSE <<>>)

\* a teleport that steps the first of its three dimensions only
teleportOneSlot(coords, color, dim1, dim2, dim3, d1, d2, d3) ==
    LET move == Bump(coords, dim1, d1)
        piece == getPieceAt(move)
    IN  IF piece = NoPiece \/ piece.color # color THEN <<move>> ELSE <<>>

\* one push of a hyperknight teleport loop
teleport(coords, color, dim1, dim2, dim3, d1, d2, d3) ==
    LET move == Bump(Bump(Bump(coords, dim1, d1), dim2, d2), dim3, d3)
        piece == getPieceAt(move)
    IN  IF piece = NoPiece \/ piece.color # color THEN <<move>> ELSE <<>>

\* the triple loop over (dim1, dim2, dim3), all different, with the steps
\* d1 in {-s1, s1}, d2 in {-s2, s2}, d3 in {-1, 1}
teleports(coords, color, s1, s2) ==
    Cat([a \in 1..Len(activeDimensions) |->
      Cat([b \in 1..Len(activeDimensions) |->
        IF a = b THEN <<>>
        ELSE Cat([c \in 1..Len(activeDimensions) |->
          IF a = c \/ b = c THEN <<>>
          ELSE Cat([n \in 1..8 |->
                 teleport(coords, color, a - 1, b - 1, c - 1,
                          (IF (n - 1) \div 4 = 0 THEN -s1 ELSE s1),
                          (IF ((n - 1) \div 2) % 2 = 0 THEN -s2 ELSE s2),
                          (IF (n - 1) % 2 = 0 THEN -1 ELSE 1))])])])])

calculateHyperknightMoves(coords, color) ==
    calculateKnightMoves(coords, color)
    \o teleports(coords, color, 3, 1)
    \o teleports(coords, color, 2, 2)

\* the switch of calculateValidMoves
movesFor(type, coords, color) ==
    CASE type = "pawn" -> calculatePawnMoves(coords, color)
      [] type = "rook" -> calculateRookMoves(coords, color)
      [] type = "knight" -> calculateKnightMoves(coords, color)
      [] type = "bishop" -> calculateBishopMoves(coords, color)
      [] type = "queen" -> calculateQueenMoves(coords, color)
      [] type = "king" -> calculateKingMoves(coords, color)
      [] type = "hyperrook" -> calculateHyperrookMoves(coords, color)
      [] type = "hyperbishop" -> calculateHyperbishopMoves(coords, color)
      [] type = "hyperknight" -> calculateHyperknightMoves(coords, color)
      [] OTHER -> <<>>

---------------------------------------------------------------------------
(* Tiles.  generateVisibleChunks rebuilds every tile from the active       *)
(* dimension count, the view mapping and the slice values of the moment;   *)
(* the tile set is kept as that configuration, and the coordinates of the  *)
(* tile at loop position (x, z, y) are computed as generateChunk does.     *)

generateVisibleChunks(active, view, slice) ==
    [n |-> Len(active), view |-> view, slice |-> slice]

\* "for d < activeDimensions.length: if (!viewDimensions.includes(d))
\*  coords[d] = sliceCoordinates[d]"
RECURSIVE pinToSlice(_, _, _)
pinToSlice(coords, b, d) ==
    IF d >= b.n THEN coords
    ELSE pinToSlice(IF ~Includes(b.view, d)
                    THEN SetAt(coords, d, At(b.slice, d)) ELSE coords,
                    b, d + 1)

\* userData.coords of the tile generateChunk creates at (x, z, y)
generateChunk(b, x, z, y) ==
    LET xz == SetAt(SetAt(Fill(b.n, 0), At(b.view, 0), x), At(b.view, 1), z)
    IN  IF Len(b.view) > 2 THEN SetAt(xz, At(b.view, 2), y)
        ELSE pinToSlice(xz, b, 0)

---------------------------------------------------------------------------
(* Move complexity, in tenths of a point (the source rounds to one         *)
(* decimal place).                                                         *)

Abs(n) == IF n < 0 THEN -n ELSE n

Pow3(k) == IF k <= 0 THEN 1 ELSE IF k = 1 THEN 3 ELSE IF k = 2 THEN 9
           ELSE IF k = 3 THEN 27 ELSE 81

RECURSIVE SumSeq(_)
SumSeq(a) == IF a = <<>> THEN 0 ELSE Head(a) + SumSeq(Tail(a))

\* COMPLEXITY_WEIGHTS.PIECE_TYPE[piece.type] || 1
pieceTypeWeight(type) ==
    CASE type = "pawn" -> 1
      [] type \in {"knight", "bishop", "rook"} -> 3
      [] type = "queen" -> 5
      [] type = "king" -> 2
      [] type = "hyperrook" -> 7
      [] type = "hyperbishop" -> 8
      [] type = "hyperknight" -> 9
      [] OTHER -> 1

\* Math.round(complexity * 10); with Q = 5 * 2^h the source's value is
\* (R + S * sqrt(distanceSquared)) / Q, rounded half up
calculateMoveComplexity(fromCoords, toCoords, type, isCapture) ==
    LET idx == 0..(Len(fromCoords) - 1)
        numeric == \A i \in idx :
                      At(toCoords, i) \notin {NaN, Undef}
                      /\ At(fromCoords, i) \notin {NaN, Undef}
        delta == [i \in 1..Len(fromCoords) |-> toCoords[i] - fromCoords[i]]
        distanceSquared == SumSeq([i \in 1..Len(fromCoords) |->
                                      delta[i] * delta[i]])
        dimensionsUsed == {i \in idx : delta[i + 1] # 0}
        nd == Cardinality(dimensionsUsed)
        h == Cardinality({i \in dimensionsUsed : i >= 3})
        base == pieceTypeWeight(type) + (IF isCapture THEN 2 ELSE 0)
        m == IF dimensionalFatigue /\ h > 1 THEN 5 + h ELSE 5
        pairs == IF type \in {"hyperrook", "hyperbishop", "hyperknight"}
                 THEN Min2((nd * (nd - 1)) \div 2, 10) ELSE 0
        Q == 5 * Pow2(h)
        R == m * (Pow2(h) * 10 * base + (IF h > 0 THEN 100 * Pow3(h) ELSE 0))
             + Q * (50 * nd + 20 * pairs)
        S == m * Pow2(h) * 5
        ok(r) == LET T == 2 * Q * r - Q - 2 * R
                 IN  T <= 0 \/ T * T <= 4 * S * S * distanceSquared
        lo == R \div Q
        hi == lo + m * SumSeq([i \in 1..Len(fromCoords) |-> Abs(delta[i])]) + 2
    IN  IF ~numeric THEN NaN
        ELSE CHOOSE r \in lo..hi : ok(r) /\ ~ok(r + 1)

---------------------------------------------------------------------------
(* Turn and capture state machine *)

\* the turn left with the side that just moved
keepTurn == currentTurn

switchTurn == IF currentTurn = WHITE THEN BLACK ELSE WHITE

\* the mover put on the destination and left on its old square as well
movedPiecesCopying(sel, newCoords) ==
    [k \in DOMAIN pieces \cup {newCoords} |->
        IF k = newCoords THEN createPiece(newCoords, sel.type, sel.color)
        ELSE pieces[k]]

\* movePiece: the occupancy map after the move
movedPieces(sel, newCoords) ==
    [k \in (DOMAIN pieces \ {sel.key}) \cup {newCoords} |->
        IF k = newCoords THEN createPiece(newCoords, sel.type, sel.color)
        ELSE pieces[k]]

\* the captured piece pushed onto the list of its own colour
capturedByOwner(sel, newCoords) ==
    IF getPieceAt(newCoords) # NoPiece
    THEN [capturedPieces EXCEPT ![getPieceAt(newCoords).color] =
            Append(@, [type |-> getPieceAt(newCoords).type,
                       color |-> getPieceAt(newCoords).color])]
    ELSE capturedPieces

\* movePiece: capturedPieces[piece.color].push({type, color})
capturedAfter(sel, newCoords) ==
    IF getPieceAt(newCoords) # NoPiece
    THEN [capturedPieces EXCEPT ![sel.color] =
            Append(@, [type |-> getPieceAt(newCoords).type,
                       color |-> getPieceAt(newCoords).color])]
    ELSE capturedPieces

\* the points shown as the last move's complexity but not added to the total
scoreNotAdded(newPoints) == totalComplexityScore

\* updateComplexityScore: totalComplexityScore += newPoints
updateComplexityScore(newPoints) ==
    IF totalComplexityScore = NaN \/ newPoints = NaN THEN NaN
    ELSE totalComplexityScore + newPoints

\* every tile taken for a valid destination
anyDestination(coords) == TRUE

\* validMoves.some(move => move.join(',') === coords.join(','))
isValidMove(coords) == \E i \in 1..Len(validMoves) : validMoves[i] = coords

dimVars == <<activeDimensions, viewDimensions, dimensionalFatigue, board,
             sliceCoordinates, viewMode, selectorOptions, ySelectorShown>>
gameVars == <<pieces, currentTurn, capturedPieces, totalComplexityScore, moves>>

\* coordinates at which the model clicks: a pick is a piece or a tile whose
\* loop position (x, z, y) lies in this window of the lattice
WinX == {3}
WinZ == {-6, -2, -1}
WinY == {0, 6}
ClickCoords == {<<x, z, y>> : x \in WinX, z \in WinZ \cup {-7, 0}, y \in WinY}

\* a click on a piece of the side not on turn drops the selection
handlePieceClickClearing(c) ==
    /\ IF c \notin DOMAIN pieces
       THEN /\ lastEvent' = "select_no_piece"
            /\ UNCHANGED <<selectedPiece, validMoves>>
       ELSE IF pieces[c].color # currentTurn
       THEN /\ lastEvent' = "select_wrong_turn"
            /\ selectedPiece' = NoSelection
            /\ validMoves' = <<>>
       ELSE /\ selectedPiece' = [key |-> c, type |-> pieces[c].type,
                                 color |-> pieces[c].color,
                                 coords |-> pieces[c].coords]
            /\ validMoves' = movesFor(pieces[c].type, pieces[c].coords,
                                      pieces[c].color)
            /\ lastEvent' = "select"
    /\ UNCHANGED <<dimVars, gameVars, ops>>

\* a click on a piece selects it whichever side is on turn
handlePieceClickAnyTurn(c) ==
    /\ IF c \notin DOMAIN pieces
       THEN /\ lastEvent' = "select_no_piece"
            /\ UNCHANGED <<selectedPiece, validMoves>>
       ELSE /\ selectedPiece' = [key |-> c, type |-> pieces[c].type,
                                 color |-> pieces[c].color,
                                 coords |-> pieces[c].coords]
            /\ validMoves' = movesFor(pieces[c].type, pieces[c].coords,
                                      pieces[c].color)
            /\ lastEvent' = "select"
    /\ UNCHANGED <<dimVars, gameVars, ops>>

\* handlePieceClick on the object picked at coordinate c
handlePieceClick(c) ==
    /\ IF c \notin DOMAIN pieces
       THEN /\ lastEvent' = "select_no_piece"
            /\ UNCHANGED <<selectedPiece, validMoves>>
       ELSE IF pieces[c].color # currentTurn
       THEN /\ lastEvent' = "select_wrong_turn"
            /\ UNCHANGED <<selectedPiece, validMoves>>
       ELSE /\ selectedPiece' = [key |-> c, type |-> pieces[c].type,
                                 color |-> pieces[c].color,
                                 coords |-> pieces[c].coords]
            /\ validMoves' = movesFor(pieces[c].type, pieces[c].coords,
                                      pieces[c].color)
            /\ lastEvent' = "select"
    /\ UNCHANGED <<dimVars, gameVars, ops>>

\* switchTurn called after the if, for an invalid destination too
handleTileClickSwitching(x, z, y) ==
    LET coords == generateChunk(board, x, z, y) IN
    /\ selectedPiece # NoSelection
    /\ IF isValidMove(coords)
       THEN /\ ops < MaxOps
            /\ pieces' = movedPieces(selectedPiece, coords)
            /\ capturedPieces' = capturedAfter(selectedPiece, coords)
            /\ totalComplexityScore' = updateComplexityScore(
                   calculateMoveComplexity(selectedPiece.coords, coords,
                       selectedPiece.type, getPieceAt(coords) # NoPiece))
            /\ moves' = moves + 1
            /\ ops' = ops + 1
            /\ lastEvent' = IF getPieceAt(coords) # NoPiece
                            THEN "capture" ELSE "move"
       ELSE /\ lastEvent' = "invalid_destination"
            /\ UNCHANGED <<pieces, capturedPieces, totalComplexityScore,
                           moves, ops>>
    /\ currentTurn' = switchTurn
    /\ selectedPiece' = NoSelection
    /\ validMoves' = <<>>
    /\ UNCHANGED dimVars

\* handleTileClick on the tile at loop position (x, z, y); onMouseClick
\* passes a tile on only while a piece is selected
handleTileClick(x, z, y) ==
    LET coords == generateChunk(board, x, z, y) IN
    /\ selectedPiece # NoSelection
    /\ IF isValidMove(coords)
       THEN /\ ops < MaxOps
            /\ pieces' = movedPieces(selectedPiece, coords)
            /\ capturedPieces' = capturedAfter(selectedPiece, coords)
            /\ totalComplexityScore' = updateComplexityScore(
                   calculateMoveComplexity(selectedPiece.coords, coords,
                       selectedPiece.type, getPieceAt(coords) # NoPiece))
            /\ currentTurn' = switchTurn
            /\ moves' = moves + 1
            /\ ops' = ops + 1
            /\ lastEvent' = IF getPieceAt(coords) # NoPiece
                            THEN "capture" ELSE "move"
       ELSE /\ lastEvent' = "invalid_destination"
            /\ UNCHANGED <<gameVars, ops>>
    /\ selectedPiece' = NoSelection
    /\ validMoves' = <<>>
    /\ UNCHANGED dimVars

\* deselectCurrentPiece reached from a click on nothing, from Escape and
\* from the keyboard's select-at-cursor
deselectCurrentPiece ==
    /\ selectedPiece' = NoSelection
    /\ validMoves' = <<>>
    /\ lastEvent' = "deselect"
    /\ UNCHANGED <<dimVars, gameVars, ops>>

---------------------------------------------------------------------------
(* Dimension and view controller *)

\* updateBoardVisualization: every piece is copied out of the map and put
\* back by createPiece under the key of its coords
updateBoardVisualization ==
    [k \in {pieces[q].coords : q \in DOMAIN pieces} |->
        LET q == CHOOSE q \in DOMAIN pieces : pieces[q].coords = k
        IN  createPiece(pieces[q].coords, pieces[q].type, pieces[q].color)]

\* MATH_CONCEPTS has the keys 1..6; toggleDimension reads
\* MATH_CONCEPTS[dimension + 1].formula / .name
hasMathConcept(k) == k \in 1..6

\* toggleDimension(dimension) on the active list: the new list, what the
\* user is shown (the alert, or the exception that ends the handler), whether
\* updateBoardVisualization at the end was reached, and the value handed back
\* to the caller: the function has the bare "return;" of the floor branch and
\* otherwise runs off its end, so a call that returns yields undefined (and
\* one that throws yields no value at all)
toggleDimension(active, dimension) ==
    LET index == IndexOf(active, dimension) IN
    IF index = -1
    THEN IF hasMathConcept(dimension + 1)
         THEN [active |-> JsSort(Append(active, dimension)),
               event |-> "dimension_added", regenerated |-> TRUE,
               returned |-> Undef]
         ELSE [active |-> JsSort(Append(active, dimension)),
               event |-> "exception", regenerated |-> FALSE,
               returned |-> Undef]
    ELSE IF Len(active) <= 3
    THEN [active |-> active, event |-> "alert_min_dimensions",
          regenerated |-> FALSE,
          returned |-> Undef]
    ELSE IF hasMathConcept(dimension + 1)
    THEN [active |-> Splice(active, index), event |-> "dimension_removed",
          regenerated |-> TRUE,
          returned |-> Undef]
    ELSE [active |-> Splice(active, index), event |-> "exception",
          regenerated |-> FALSE,
          returned |-> Undef]

\* a call of toggleDimension(d) as a step of the program
applyToggle(d) ==
    LET t == toggleDimension(activeDimensions, d) IN
    /\ activeDimensions' = t.active
    /\ lastEvent' = t.event
    /\ board' = IF t.regenerated
                THEN generateVisibleChunks(t.active, viewDimensions,
                                           sliceCoordinates)
                ELSE board
    /\ pieces' = IF t.regenerated THEN updateBoardVisualization ELSE pieces

selectionVars == <<selectedPiece, validMoves>>
scoreVars == <<currentTurn, capturedPieces, totalComplexityScore, moves>>

\* the exploration budget: a handler run that changes the game or the
\* dimension state is counted, a run that is turned away is not
budget(counted) ==
    IF counted THEN ops < MaxOps /\ ops' = ops + 1 ELSE ops' = ops

\* the inputs of the dimension and view handlers that the game
\* specification draws from; the controller specification draws from the
\* handlers' whole ranges
ButtonDims == {0, 3}
KeyDims == {3}
ViewModes == {"2d", "3d"}
AxisChoices == {3}
SliceDims == {3}
SliceSteps == {1}
SliderValues == {1}

\* click on the toggle button of dimension d (0..5)
ToggleButton(d) ==
    /\ budget(toggleDimension(activeDimensions, d).active # activeDimensions)
    /\ applyToggle(d)
    /\ UNCHANGED <<viewDimensions, dimensionalFatigue, sliceCoordinates,
                   viewMode, selectorOptions, ySelectorShown, selectionVars,
                   scoreVars>>

\* number key 0..6 in KeyboardController.handleKeypressActions
KeyToggle(key) ==
    /\ budget(toggleDimension(activeDimensions, key).active # activeDimensions)
    /\ applyToggle(key)
    /\ UNCHANGED <<viewDimensions, dimensionalFatigue, sliceCoordinates,
                   viewMode, selectorOptions, ySelectorShown, selectionVars,
                   scoreVars>>

\* the add-dimension button
AddDimensionButton ==
    /\ budget(Len(activeDimensions) < MAX_DIMENSIONS)
    /\ IF Len(activeDimensions) >= MAX_DIMENSIONS
       THEN /\ lastEvent' = "alert_max_dimensions"
            /\ UNCHANGED <<activeDimensions, board, pieces, selectorOptions>>
       ELSE IF \E d \in 0..(MAX_DIMENSIONS - 1) : ~Includes(activeDimensions, d)
       THEN LET d == CHOOSE d \in 0..(MAX_DIMENSIONS - 1) :
                       /\ ~Includes(activeDimensions, d)
                       /\ \A e \in 0..(d - 1) : Includes(activeDimensions, e)
            IN  /\ applyToggle(d)
                /\ selectorOptions' = activeDimensions'
       ELSE /\ lastEvent' = "add_nothing"
            /\ UNCHANGED <<activeDimensions, board, pieces, selectorOptions>>
    /\ UNCHANGED <<viewDimensions, dimensionalFatigue, sliceCoordinates,
                   viewMode, ySelectorShown, selectionVars, scoreVars>>

\* the loop of the reset handler over d = 0..5
RECURSIVE resetLoop(_, _)
resetLoop(active, d) ==
    IF d >= MAX_DIMENSIONS THEN active
    ELSE LET isActive == Includes(active, d)
             shouldBeActive == d < DEFAULT_DIMENSIONS
         IN  resetLoop(IF isActive # shouldBeActive
                       THEN toggleDimension(active, d).active ELSE active,
                       d + 1)

\* the reset button, confirmed
ResetDimensions ==
    /\ ops < MaxOps
    /\ ops' = ops + 1
    /\ activeDimensions' = resetLoop(activeDimensions, 0)
    /\ viewDimensions' = <<0, 1, 2>>
    /\ viewMode' = "3d"
    /\ selectorOptions' = activeDimensions'
    /\ board' = generateVisibleChunks(activeDimensions', viewDimensions',
                                      sliceCoordinates)
    /\ pieces' = updateBoardVisualization
    /\ lastEvent' = "reset"
    /\ UNCHANGED <<dimensionalFatigue, sliceCoordinates, ySelectorShown,
                   selectionVars, scoreVars>>

\* change of #view-mode-select to mode
ChangeViewMode(mode) ==
    /\ ops < MaxOps
    /\ ops' = ops + 1
    /\ mode # viewMode
    /\ viewMode' = mode
    /\ viewDimensions' =
          IF mode = "3d"
          THEN <<At(activeDimensions, 0), At(activeDimensions, 1),
                 At(activeDimensions, 2)>>
          ELSE <<At(activeDimensions, 0), At(activeDimensions, 1)>>
    /\ ySelectorShown' = (mode = "3d")
    /\ board' = generateVisibleChunks(activeDimensions, viewDimensions',
                                      sliceCoordinates)
    /\ pieces' = updateBoardVisualization
    /\ lastEvent' = "view_mode"
    /\ UNCHANGED <<activeDimensions, dimensionalFatigue, sliceCoordinates,
                   selectorOptions, selectionVars, scoreVars>>

\* change of the X (slot 0), Z (slot 1) or Y (slot 2) axis selector
ChangeAxis(slot, selectedDim) ==
    /\ ops < MaxOps
    /\ ops' = ops + 1
    /\ Includes(selectorOptions, selectedDim)
    /\ slot = 2 => ySelectorShown
    /\ viewDimensions' =
          IF slot = 2 /\ Len(viewDimensions) <= 2
          THEN Append(viewDimensions, selectedDim)
          ELSE SetAt(viewDimensions, slot, selectedDim)
    /\ board' = generateVisibleChunks(activeDimensions, viewDimensions',
                                      sliceCoordinates)
    /\ pieces' = updateBoardVisualization
    /\ lastEvent' = "axis"
    /\ UNCHANGED <<activeDimensions, dimensionalFatigue, sliceCoordinates,
                   viewMode, selectorOptions, ySelectorShown, selectionVars,
                   scoreVars>>

\* the fatigue button
ToggleFatigue ==
    /\ ops < MaxOps
    /\ ops' = ops + 1
    /\ dimensionalFatigue' = ~dimensionalFatigue
    /\ lastEvent' = "fatigue"
    /\ UNCHANGED <<activeDimensions, viewDimensions, board, pieces,
                   sliceCoordinates, viewMode, selectorOptions,
                   ySelectorShown, selectionVars, scoreVars>>

\* the slice value stored and the tiles rebuilt, the pieces cleared and not
\* restored
updateSliceVisualizationDroppingPieces(dimension, value) ==
    /\ sliceCoordinates' = SetAt(sliceCoordinates, dimension, value)
    /\ board' = generateVisibleChunks(activeDimensions, viewDimensions,
                                      sliceCoordinates')
    /\ pieces' = [k \in {} |-> NoPiece]

\* updateSliceVisualization(dimension, value): the slice value is stored and
\* updateBoardVisualization rebuilds tiles and pieces
updateSliceVisualization(dimension, value) ==
    /\ sliceCoordinates' = SetAt(sliceCoordinates, dimension, value)
    /\ board' = generateVisibleChunks(activeDimensions, viewDimensions,
                                      sliceCoordinates')
    /\ pieces' = updateBoardVisualization

\* changeSlice(dimension, direction) of the keyboard controller: R/F, T/G
\* and Y/H step the slider of dimension 3, 4 and 5
changeSlice(dimension, direction) ==
    LET newValue == At(sliceCoordinates, dimension) + direction IN
    /\ ops < MaxOps
    /\ ops' = ops + 1
    /\ IF dimension < MAX_DIMENSIONS /\ Includes(activeDimensions, dimension)
          /\ newValue >= -10 /\ newValue <= 10
       THEN /\ updateSliceVisualization(dimension, newValue)
            /\ lastEvent' = "slice"
       ELSE /\ lastEvent' = "slice_ignored"
            /\ UNCHANGED <<sliceCoordinates, board, pieces>>
    /\ UNCHANGED <<activeDimensions, viewDimensions, dimensionalFatigue,
                   viewMode, selectorOptions, ySelectorShown, selectionVars,
                   scoreVars>>

\* input on the slice slider of dimension d (3..5), which is on display while
\* d is active; the slider spans -10..10
SliderInput(d, value) ==
    /\ ops < MaxOps
    /\ ops' = ops + 1
    /\ Includes(activeDimensions, d)
    /\ value # At(sliceCoordinates, d)
    /\ updateSliceVisualization(d, value)
    /\ lastEvent' = "slice"
    /\ UNCHANGED <<activeDimensions, viewDimensions, dimensionalFatigue,
                   viewMode, selectorOptions, ySelectorShown, selectionVars,
                   scoreVars>>

\* checkGenerateTiles after the camera moved: generateVisibleChunks
CameraMoved ==
    /\ board' = generateVisibleChunks(activeDimensions, viewDimensions,
                                      sliceCoordinates)
    /\ UNCHANGED <<activeDimensions, viewDimensions, dimensionalFatigue,
                   pieces, sliceCoordinates, viewMode, selectorOptions,
                   ySelectorShown, selectionVars, scoreVars, lastEvent, ops>>

---------------------------------------------------------------------------
(* The game as started by init() *)

Init ==
    /\ activeDimensions = <<0, 1, 2>>
    /\ viewDimensions = <<0, 1, 2>>
    /\ dimensionalFatigue = TRUE
    /\ sliceCoordinates = Fill(MAX_DIMENSIONS, 0)
    /\ board = generateVisibleChunks(<<0, 1, 2>>, <<0, 1, 2>>,
                                     Fill(MAX_DIMENSIONS, 0))
    /\ pieces = initializeBoard(<<0, 1, 2>>)
    /\ selectedPiece = NoSelection
    /\ validMoves = <<>>
    /\ currentTurn = WHITE
    /\ capturedPieces = [white |-> <<>>, black |-> <<>>]
    /\ totalComplexityScore = 0
    /\ viewMode = "3d"
    /\ selectorOptions = <<0, 1, 2>>
    /\ ySelectorShown = TRUE
    /\ lastEvent = "init"
    /\ moves = 0
    /\ ops = 0

Next ==
    \/ \E c \in ClickCoords : handlePieceClick(c)
    \/ \E x \in WinX, z \in WinZ, y \in WinY : handleTileClick(x, z, y)
    \/ deselectCurrentPiece
    \/ \E d \in ButtonDims : ToggleButton(d)
    \/ \E key \in KeyDims : KeyToggle(key)
    \/ AddDimensionButton
    \/ ResetDimensions
    \/ \E mode \in ViewModes : ChangeViewMode(mode)
    \/ \E slot \in 0..2, selectedDim \in AxisChoices :
          ChangeAxis(slot, selectedDim)
    \/ ToggleFatigue
    \/ \E dimension \in SliceDims, direction \in SliceSteps :
          changeSlice(dimension, direction)
    \/ \E d \in SliceDims, value \in SliderValues : SliderInput(d, value)
    \/ CameraMoved

Spec == Init /\ [][Next]_vars

\* the dimension and view controller on its own, every handler over the
\* whole range of its input
NextDim ==
    \/ \E d \in 0..(MAX_DIMENSIONS - 1) : ToggleButton(d)
    \/ \E key \in 0..6 : KeyToggle(key)
    \/ AddDimensionButton
    \/ ResetDimensions
    \/ \E mode \in {"2d", "3d", "slice"} : ChangeViewMode(mode)
    \/ \E slot \in 0..2, selectedDim \in 0..6 : ChangeAxis(slot, selectedDim)
    \/ ToggleFatigue
    \/ \E dimension \in 3..5, direction \in {-1, 1} :
          changeSlice(dimension, direction)
    \/ \E d \in 3..5, value \in {-10, 1, 10} : SliderInput(d, value)
    \/ CameraMoved

SpecDim == Init /\ [][NextDim]_vars

---------------------------------------------------------------------------
(* The move generators on their own: calculateValidMoves applied to boards *)
(* drawn from a bounded set.  The piece that is selected stands at the     *)
(* origin; one other piece of either colour stands near it.                *)

\* coords as createPiece receives them from Array(n).fill(0) plus offsets
GenPad(v, n) == [i \in 1..n |-> IF i <= Len(v) THEN v[i] ELSE 0]

GenDims == {<<0, 1, 2>>, <<0, 1, 2, 3>>, <<0, 1, 2, 4>>}
GenViews == {<<0, 1, 2>>, <<0, 1>>}
GenSquares == {<<1, 0, 0>>, <<1, 1, 0>>, <<1, 1, 1>>, <<1, 2, 0>>,
               <<0, -1, 0>>, <<1, -1, 0>>, <<0, 0, 0, 1>>, <<0, 0, 0>>}

\* pieces hold as many coordinates as were active when they were created:
\* three, or the number active now; the other piece drawn at the origin
\* leaves the selected piece alone on the board
GenBoard(type, n, other, color) ==
    LET home == GenPad(<<>>, n)
        at == GenPad(other, n)
    IN  [k \in {home, at} |->
            IF k = home THEN createPiece(home, type, WHITE)
            ELSE createPiece(at, "pawn", color)]

InitGen ==
    /\ activeDimensions \in GenDims
    /\ viewDimensions \in GenViews
    /\ dimensionalFatigue \in BOOLEAN
    /\ sliceCoordinates = Fill(MAX_DIMENSIONS, 0)
    /\ board = generateVisibleChunks(activeDimensions, viewDimensions,
                                     sliceCoordinates)
    /\ \E type \in PIECE_TYPES, n \in {3, Len(activeDimensions)},
          other \in GenSquares, color \in PIECE_COLORS :
          /\ Len(other) <= n
          /\ pieces = GenBoard(type, n, other, color)
    /\ selectedPiece = NoSelection
    /\ validMoves = <<>>
    /\ currentTurn = WHITE
    /\ capturedPieces = [white |-> <<>>, black |-> <<>>]
    /\ totalComplexityScore = 0
    /\ viewMode = IF Len(viewDimensions) = 3 THEN "3d" ELSE "2d"
    /\ selectorOptions = activeDimensions
    /\ ySelectorShown = (Len(viewDimensions) = 3)
    /\ lastEvent = "init"
    /\ moves = 0
    /\ ops = 0

NextGen ==
    \/ \E c \in DOMAIN pieces : handlePieceClick(c)
    \/ deselectCurrentPiece

SpecGen == InitGen /\ [][NextGen]_vars

---------------------------------------------------------------------------
(* Properties of the move generators, checked under SpecGen *)

\* the squares of the valid-move list
Destinations == {validMoves[i] : i \in 1..Len(validMoves)}

\* C1: for every piece type, board, active-dimension set, view mapping and
\* fatigue setting, the valid-move set computed for a piece never contains
\* a coordinate occupied by a piece of the same colour
NoFriendlyDestination ==
    selectedPiece # NoSelection =>
        \A m \in Destinations :
            getPieceAt(m) = NoPiece \/ getPieceAt(m).color # selectedPiece.color

\* a king is selected with a pawn of its own colour on the neighbouring
\* square (1, 1, 0), and it has other squares to go to
FriendlyNeighbourLeftOut ==
    /\ selectedPiece # NoSelection
    /\ selectedPiece.type = "king"
    /\ \E q \in DOMAIN pieces :
          /\ pieces[q].color = selectedPiece.color
          /\ q # selectedPiece.key
          /\ SubSeq(q, 1, 3) = <<1, 1, 0>>
    /\ validMoves # <<>>

\* the types whose generators scan along a line
SlidingTypes == {"rook", "bishop", "queen", "hyperrook", "hyperbishop"}

\* the largest step |p[i] - c[i]| from c to p
StepTo(c, p) ==
    CHOOSE k \in 0..20 : /\ \A i \in 1..Len(c) : Abs(p[i] - c[i]) <= k
                         /\ \E i \in 1..Len(c) : Abs(p[i] - c[i]) = k

\* p lies on a line from c: every coordinate differs by 0 or by the same step
OnLine(c, p) ==
    /\ Len(p) = Len(c)
    /\ p # c
    /\ \A i \in 1..Len(c) : Abs(p[i] - c[i]) \in {0, StepTo(c, p)}

\* the square j steps from c on the line through p
Beyond(c, p, j) ==
    [i \in 1..Len(c) |-> c[i] + j * ((p[i] - c[i]) \div StepTo(c, p))]

\* C2: for a sliding piece (rook, bishop, queen, hyperrook, hyperbishop) and
\* each direction, if the square at distance k is occupied, no destination at
\* a distance greater than k in that exact direction is in the valid-move set
SlidingBlocked ==
    (selectedPiece # NoSelection /\ selectedPiece.type \in SlidingTypes) =>
        \A p \in DOMAIN pieces :
            OnLine(selectedPiece.coords, p) =>
                \A j \in (StepTo(selectedPiece.coords, p) + 1)..8 :
                    Beyond(selectedPiece.coords, p, j) \notin Destinations

---------------------------------------------------------------------------
(* Properties of the turn and capture state machine, checked under Spec *)

\* a step that commits a move
Committed == moves' = moves + 1

\* C3: starting from white to move, after any interleaving of selects,
\* deselects, rejected clicks and N committed moves the turn is white if N
\* is even and black if N is odd; the turn flips exactly once per committed
\* move and no other operation changes it
TurnAlternates ==
    /\ [](currentTurn = IF moves % 2 = 0 THEN WHITE ELSE BLACK)
    /\ [][/\ Committed => currentTurn' # currentTurn
          /\ currentTurn' # currentTurn => Committed]_vars

\* two moves are committed, white is to move again and the last click was a
\* rejected one
WhiteAgainAfterTwoMoves ==
    moves = 2 /\ currentTurn = WHITE /\ lastEvent = "select_wrong_turn"

\* the squares that held an enemy of the mover and hold the mover's colour
\* after the step
Taken ==
    {d \in DOMAIN pieces \cap DOMAIN pieces' :
        /\ pieces[d].color # selectedPiece.color
        /\ pieces'[d].color = selectedPiece.color}

\* C4: a committed move onto an enemy-occupied coordinate removes that piece
\* from the occupancy map, appends exactly one entry (its type and colour) to
\* the captured list of the mover's colour, leaves the other list unchanged
\* and lowers the piece count by exactly 1; a committed move onto an empty
\* coordinate changes neither captured list nor the piece count
CaptureAccounting ==
    [][Committed =>
        LET mover == selectedPiece.color
            other == IF mover = WHITE THEN BLACK ELSE WHITE
        IN  IF Taken # {}
            THEN \E d \in Taken :
                   /\ Taken = {d}
                   /\ pieces'[d].type = selectedPiece.type
                   /\ Cardinality(DOMAIN pieces') = Cardinality(DOMAIN pieces) - 1
                   /\ capturedPieces'[mover] =
                         Append(capturedPieces[mover],
                                [type |-> pieces[d].type,
                                 color |-> pieces[d].color])
                   /\ capturedPieces'[other] = capturedPieces[other]
            ELSE /\ capturedPieces' = capturedPieces
                 /\ Cardinality(DOMAIN pieces') = Cardinality(DOMAIN pieces)
                 /\ DOMAIN pieces' # DOMAIN pieces]_vars

\* white has captured the black pawn: one entry in white's list, none in
\* black's, 31 pieces left
WhiteCapturedPawn ==
    /\ lastEvent = "capture"
    /\ capturedPieces[WHITE] = <<[type |-> "pawn", color |-> BLACK]>>
    /\ capturedPieces[BLACK] = <<>>
    /\ Cardinality(DOMAIN pieces) = 31

InvalidDestinationOnlyDeselects ==
    [][\A x \in WinX, z \in WinZ, y \in WinY :
          (generateChunk(board, x, z, y) \notin Destinations
             /\ handleTileClick(x, z, y))
          => /\ selectedPiece' = NoSelection
             /\ validMoves' = <<>>
             /\ UNCHANGED <<pieces, capturedPieces, currentTurn,
                            totalComplexityScore, moves>>]_vars

\* after one committed move a tile outside the selected piece's moves was
\* clicked, and nothing is selected
InvalidDestinationAfterMove ==
    /\ lastEvent = "invalid_destination"
    /\ selectedPiece = NoSelection
    /\ moves = 1
    /\ currentTurn = BLACK

\* C7: a move is committed only to a destination in the valid-move set
\* computed by the most recent successful select; after a deselect the cache
\* is empty and no destination is accepted, and after selecting a different
\* piece only destinations of the new piece's set are accepted and it is the
\* newly selected piece that moves
MoveOnlyFromLatestSelect ==
    /\ [](selectedPiece = NoSelection => validMoves = <<>>)
    /\ [][/\ Committed =>
               /\ selectedPiece # NoSelection
               /\ \E d \in Destinations :
                     /\ d \in DOMAIN pieces'
                     /\ pieces'[d] = createPiece(d, selectedPiece.type,
                                                 selectedPiece.color)
                     /\ selectedPiece.key \notin DOMAIN pieces'
                     /\ \A k \in DOMAIN pieces' \ {d} :
                           k \in DOMAIN pieces /\ pieces'[k] = pieces[k]
          /\ (selectedPiece' # selectedPiece \/ validMoves' # validMoves) =>
               \/ selectedPiece' = NoSelection /\ validMoves' = <<>>
               \/ /\ selectedPiece'.key \in DOMAIN pieces
                  /\ selectedPiece'.color = currentTurn
                  /\ validMoves' = movesFor(selectedPiece'.type,
                                            selectedPiece'.coords,
                                            selectedPiece'.color)]_vars

\* the white pawn in front of the queen has moved one square: the queen can
\* be selected first and the pawn after it, and it is the pawn that moved
PawnMovedNotQueen ==
    /\ lastEvent = "move"
    /\ <<3, -2, 0>> \in DOMAIN pieces
    /\ pieces[<<3, -2, 0>>].type = "pawn"
    /\ <<3, 0, 0>> \in DOMAIN pieces
    /\ pieces[<<3, 0, 0>>].type = "queen"

---------------------------------------------------------------------------
(* Properties of the dimension controller, checked under SpecDim *)

\* a toggle of dimension d, from its button or its number key, that asks for
\* the removal of an active dimension while exactly three are active
FloorCase(d) ==
    /\ Len(activeDimensions) = 3
    /\ Includes(activeDimensions, d)
    /\ (ToggleButton(d) \/ KeyToggle(d))

\* C8: removing (toggling off) a dimension while exactly 3 dimensions are
\* active is rejected: the active-dimension set, the view mapping, the board
\* and the pieces are unchanged and the rejection is signalled to the caller,
\* that is, the call hands its caller a value (the spec's "rejection signal
\* returned") rather than the undefined of a toggle that went through
FloorRejected ==
    [][\A d \in 0..6 :
          FloorCase(d)
          => /\ UNCHANGED <<activeDimensions, viewDimensions, board, pieces>>
             /\ toggleDimension(activeDimensions, d).returned # Undef]_vars

\* C9: after any sequence of dimension operations reachable from the UI
\* (toggle buttons, number keys 0-6, the add-dimension button, reset) the
\* number of active dimensions is between 3 and 6 and every active index is
\* in 0..5; adding a dimension when 6 are active is rejected and leaves the
\* active set unchanged, and no such operation raises an exception
DimensionBounds ==
    /\ [](/\ Len(activeDimensions) >= DEFAULT_DIMENSIONS
          /\ Len(activeDimensions) <= MAX_DIMENSIONS
          /\ \A i \in 1..Len(activeDimensions) :
                activeDimensions[i] \in 0..(MAX_DIMENSIONS - 1)
          /\ lastEvent # "exception")
    /\ [][(Len(activeDimensions) = MAX_DIMENSIONS /\ AddDimensionButton)
          => /\ activeDimensions' = activeDimensions
             /\ lastEvent' = "alert_max_dimensions"]_vars

\* C10: in every reachable state the active-dimension set contains the
\* indices 0, 1 and 2
BaseDimensionsActive ==
    \A d \in 0..2 : Includes(activeDimensions, d)

\* C10, amended: in every reachable state at least three different
\* dimensions are active
AtLeastThreeActive ==
    Cardinality({activeDimensions[i] : i \in 1..Len(activeDimensions)}) >= 3

\* dimension 0 has been toggled off and three dimensions are active
BaseDimensionRemoved ==
    /\ ~Includes(activeDimensions, 0)
    /\ Len(activeDimensions) = 3
    /\ lastEvent = "dimension_removed"

---------------------------------------------------------------------------
(* Coordinates, tiles and the view mapping across dimension changes *)

\* the coordinates of the tiles of the click window
WindowTiles ==
    {generateChunk(board, x, z, y) : x \in WinX, z \in WinZ, y \in WinY}

\* C11: in every reachable state all pieces and all tiles have coordinate
\* tuples of one length, the current number of active dimensions (a piece is
\* padded with 0 when a dimension is added and truncated when one is removed)
SameDimensionCount ==
    /\ \A q \in DOMAIN pieces :
          Len(pieces[q].coords) = Len(activeDimensions)
    /\ \A t \in WindowTiles : Len(t) = Len(activeDimensions)

\* C12: in every reachable state the view mapping is a list of 2 or 3
\* dimension indices, each of them currently active
ViewDrawnFromActive ==
    /\ Len(viewDimensions) \in {2, 3}
    /\ \A i \in 1..Len(viewDimensions) :
          Includes(activeDimensions, viewDimensions[i])

---------------------------------------------------------------------------
(* Complexity score *)

\* C13: the cumulative complexity score never decreases: a committed move
\* raises it by a strictly positive amount, and no other step (rejected
\* select, invalid destination, deselect, dimension, view, slice or fatigue
\* operation) changes it
ScoreMonotone ==
    /\ [](totalComplexityScore # NaN /\ totalComplexityScore >= 0)
    /\ [][/\ totalComplexityScore' >= totalComplexityScore
          /\ Committed => totalComplexityScore' > totalComplexityScore
          /\ totalComplexityScore' # totalComplexityScore => Committed]_vars

\* one move was committed, the score it earned is still there after a
\* dimension was added
ScoreKeptAcrossDimensionChange ==
    /\ moves = 1
    /\ totalComplexityScore > 0
    /\ lastEvent = "dimension_added"

---------------------------------------------------------------------------
(* Hyperpieces *)

HyperTypes == {"hyperrook", "hyperbishop", "hyperknight"}

\* C14: whenever more than 3 dimensions are active the board holds, for each
\* colour, a hyperrook, a hyperbishop and a hyperknight with a nonzero
\* coordinate in a dimension of index 3 or more, unless it was captured
HyperpiecesPresent ==
    Len(activeDimensions) > 3 =>
       \A color \in PIECE_COLORS, type \in HyperTypes :
          \/ \E q \in DOMAIN pieces :
                /\ pieces[q].type = type
                /\ pieces[q].color = color
                /\ \E i \in 4..Len(pieces[q].coords) :
                      pieces[q].coords[i] \notin {0, Undef}
          \/ \E other \in PIECE_COLORS :
                \E j \in 1..Len(capturedPieces[other]) :
                   /\ capturedPieces[other][j].type = type
                   /\ capturedPieces[other][j].color = color

---------------------------------------------------------------------------
(* Ranges and shapes of the generated moves, checked under SpecGen *)

\* a destination that holds numbers only and is as long as the piece's
\* coordinate
Numeric(m) ==
    /\ Len(m) = Len(selectedPiece.coords)
    /\ \A i \in 1..Len(m) : m[i] \notin {NaN, Undef}

\* the slots in which destination m differs from the selected piece
Changed(m) == {i \in 1..Len(m) : m[i] # selectedPiece.coords[i]}

\* the selected piece moved by step[i] in every slot i
Moved(step) ==
    [i \in 1..Len(selectedPiece.coords) |-> selectedPiece.coords[i] + step[i]]

\* the slots of the selected piece's coordinate that are active dimensions
Slots == 1..Min2(Len(selectedPiece.coords), Len(activeDimensions))

\* the square is empty or holds a piece the selected piece may capture
Landable(m) ==
    getPieceAt(m) = NoPiece \/ getPieceAt(m).color # selectedPiece.color

\* the range C15 states for a move of k dimensions at once
StatedRange(k) ==
    IF dimensionalFatigue THEN Max2(7 - Pow2(k - 2), 2) ELSE 7 - k

FatigueHalvesRange ==
    (selectedPiece.type = "hyperrook" /\ dimensionalFatigue) =>
       \A m \in Destinations :
          \A d \in 1..20 :
             (/\ Numeric(m)
              /\ Changed(m) # {}
              /\ \A i \in Changed(m) : Abs(m[i] - selectedPiece.coords[i]) = d)
             => d <= 7 \div Pow2(Cardinality(Changed(m)) - 1)

ChangedSlots(m) ==
    {i \in 0..(Max2(Len(m), Len(selectedPiece.coords)) - 1) :
        At(m, i) # At(selectedPiece.coords, i)}

\* the sizes of the steps that lead to destination m: the difference where
\* both components are numbers, any step of 1..3 where the piece's
\* coordinate has no such component (undefined + step is NaN)
StepSizes(m) ==
    {f \in [ChangedSlots(m) -> 1..3] :
        \A i \in ChangedSlots(m) :
           \/ At(m, i) = NaN /\ At(selectedPiece.coords, i) = Undef
           \/ /\ At(m, i) \notin {NaN, Undef}
              /\ At(selectedPiece.coords, i) \notin {NaN, Undef}
              /\ f[i] = Abs(At(m, i) - At(selectedPiece.coords, i))}

\* how many slots step by k under f
StepCount(f, k) == Cardinality({i \in DOMAIN f : f[i] = k})

AloneInFullView ==
    /\ selectedPiece # NoSelection
    /\ DOMAIN pieces = {selectedPiece.coords}
    /\ Len(selectedPiece.coords) = 3
    /\ Len(activeDimensions) = 3
    /\ Len(viewDimensions) = 3

\* C18: with 3 active dimensions, full 3D view, fatigue disabled and no other
\* piece on the board, the rook's valid-move set is exactly the 42
\* coordinates at distance 1..7 in both directions along each of the 3
\* dimensions
RookFortyTwo ==
    (selectedPiece.type = "rook" /\ AloneInFullView /\ ~dimensionalFatigue) =>
       /\ Destinations =
             {[selectedPiece.coords EXCEPT ![i] = @ + k] :
                 i \in 1..3, k \in (-7..7) \ {0}}
       /\ Cardinality(Destinations) = 42
       /\ Len(validMoves) = 42

\* the lone rook with fatigue off sees the seventh square up the third
\* dimension
LoneRookSelected ==
    /\ selectedPiece.type = "rook"
    /\ AloneInFullView
    /\ ~dimensionalFatigue
    /\ <<0, 0, 7>> \in Destinations

\* the L-shaped steps from the selected piece over the ordered pairs of
\* slots in P: 2 (either sign) in the first slot, 1 (either sign) in the
\* second, onto squares that are empty or hostile
LSteps(P) ==
    {m \in {Bump(Bump(selectedPiece.coords, p[1], d1), p[2], d2) :
               p \in P, d1 \in {-2, 2}, d2 \in {-1, 1}} : Landable(m)}

\* the ordered pairs of different slots of the active dimensions
SlotPairs ==
    {p \in (0..(Len(activeDimensions) - 1)) \X (0..(Len(activeDimensions) - 1)) :
        p[1] # p[2]}

\* those of them that calculateKnightMoves does not skip: in a view of fewer
\* than three axes both slots have to be viewed
ViewedSlotPairs ==
    {p \in SlotPairs : ~restrictedOut(p[1]) /\ ~restrictedOut(p[2])}

---------------------------------------------------------------------------
(* Slices *)

\* C20: changing the slice value of a dimension, by the slider or by the
\* keyboard, leaves every piece's coordinate, type and colour, the turn, the
\* captured lists and the complexity score unchanged; only the tiles may
\* change
SliceLeavesGameAlone ==
    [][(sliceCoordinates' # sliceCoordinates
          \/ (\E d \in 3..5, value \in -10..10 : SliderInput(d, value))
          \/ (\E dimension \in 3..5, direction \in {-1, 1} :
                 changeSlice(dimension, direction)))
       => UNCHANGED <<pieces, currentTurn, capturedPieces,
                      totalComplexityScore, moves>>]_vars

\* the slice of the fourth dimension was changed after a move had been made:
\* all 32 pieces are on the board and it is black's turn
SliceChangedAfterMove ==
    /\ lastEvent = "slice"
    /\ sliceCoordinates[4] = 1
    /\ moves = 1
    /\ currentTurn = BLACK
    /\ Cardinality(DOMAIN pieces) = 32
    /\ totalComplexityScore > 0

---------------------------------------------------------------------------
(* Tiles and the slice values *)

\* C21: after every board regeneration, each generated tile has, in every
\* active dimension that is not in the view mapping, exactly that dimension's
\* slice value of the moment, in a three-axis view as well as in a two-axis
\* one
TilesPinnedToSlice ==
    \A t \in WindowTiles :
       \A d \in 0..(board.n - 1) :
          ~Includes(board.view, d) => At(t, d) = At(board.slice, d)

---------------------------------------------------------------------------
(* The view restriction of the sliding generators *)

\* C22: when the view mapping has fewer than 3 dimensions, every destination
\* generated for a rook, bishop or queen differs from the piece's coordinate
\* only in dimensions of the view mapping; when the view mapping has 3
\* dimensions, the rook scan (of a rook or queen) reaches the neighbouring
\* square along every active dimension, and the bishop scan (of a bishop or
\* queen) the neighbouring diagonal square of every two active dimensions,
\* wherever that square is empty or hostile
ViewRestrictsSliders ==
    selectedPiece.type \in {"rook", "bishop", "queen"} =>
       /\ Len(viewDimensions) < 3 =>
             \A m \in Destinations :
                \A d \in ChangedSlots(m) : Includes(viewDimensions, d)
       /\ (Len(viewDimensions) = 3 /\ selectedPiece.type # "bishop") =>
             \A i \in 1..Len(activeDimensions), s \in {-1, 1} :
                LET m == Bump(selectedPiece.coords, activeDimensions[i], s)
                IN  Landable(m) => m \in Destinations
       /\ (Len(viewDimensions) = 3 /\ selectedPiece.type # "rook") =>
             \A i, j \in 1..Len(activeDimensions), s, t \in {-1, 1} :
                LET m == Bump(Bump(selectedPiece.coords, activeDimensions[i], s),
                              activeDimensions[j], t)
                IN  (i < j /\ Landable(m)) => m \in Destinations

---------------------------------------------------------------------------
(* The 2D infinite-board game of static/infinite_chessboard_module.js.  It *)
(* is a program of its own with its own chessPieces, selectedPiece,        *)
(* validMoves, currentTurn and capturedPieces; they are held in pieces,    *)
(* selectedPiece, validMoves, currentTurn and capturedPieces, a position   *)
(* {x, z} as <<x, z>>.  The dimension controller, the slices and the       *)
(* complexity score have no counterpart in it and keep their first values. *)

\* chessPieces after createBasicPieces has placed STANDARD_CHESS_LAYOUT
STANDARD_CHESS_LAYOUT ==
    LET keys == {<<x, z>> : x \in 0..7, z \in {-7, -6, -1, 0}}
    IN  [k \in keys |->
            IF k[2] = -7 THEN createPiece(k, backRank[k[1] + 1], BLACK)
            ELSE IF k[2] = -6 THEN createPiece(k, "pawn", BLACK)
            ELSE IF k[2] = -1 THEN createPiece(k, "pawn", WHITE)
            ELSE createPiece(k, backRank[k[1] + 1], WHITE)]

\* chessPieces[`${x},${z}`]
getPieceAt2D(x, z) == getPieceAt(<<x, z>>)

canCapture2D(x, z, color) ==
    getPieceAt2D(x, z) # NoPiece /\ getPieceAt2D(x, z).color # color

calculatePawnMoves2D(x, z, color) ==
    LET direction == IF color = WHITE THEN -1 ELSE 1
        startingRank == IF color = WHITE THEN 0 ELSE -6
    IN  (IF getPieceAt2D(x, z + direction) = NoPiece
         THEN << <<x, z + direction>> >> \o
              (IF z = startingRank
                  /\ getPieceAt2D(x, z + 2 * direction) = NoPiece
               THEN << <<x, z + 2 * direction>> >> ELSE <<>>)
         ELSE <<>>)
        \o (IF canCapture2D(x - 1, z + direction, color)
            THEN << <<x - 1, z + direction>> >> ELSE <<>>)
        \o (IF canCapture2D(x + 1, z + direction, color)
            THEN << <<x + 1, z + direction>> >> ELSE <<>>)

\* "for (let i = 1; i <= 7; i++)" along direction dir of the 2D rook and
\* bishop
RECURSIVE slide2D(_, _, _, _, _)
slide2D(x, z, dir, i, color) ==
    IF i > 7 THEN <<>>
    ELSE LET newX == x + dir[1] * i
             newZ == z + dir[2] * i
             piece == getPieceAt2D(newX, newZ)
         IN  IF piece = NoPiece
             THEN << <<newX, newZ>> >> \o slide2D(x, z, dir, i + 1, color)
             ELSE IF piece.color # color THEN << <<newX, newZ>> >>
             ELSE <<>>

calculateRookMoves2D(x, z, color) ==
    LET directions == << <<0, 1>>, <<0, -1>>, <<-1, 0>>, <<1, 0>> >>
    IN  Cat([n \in 1..4 |-> slide2D(x, z, directions[n], 1, color)])

calculateKnightMoves2D(x, z, color) ==
    LET moves2D == << <<x + 2, z + 1>>, <<x + 2, z - 1>>, <<x - 2, z + 1>>,
                      <<x - 2, z - 1>>, <<x + 1, z + 2>>, <<x - 1, z + 2>>,
                      <<x + 1, z - 2>>, <<x - 1, z - 2>> >>
    IN  Cat([n \in 1..8 |->
            LET piece == getPieceAt2D(moves2D[n][1], moves2D[n][2])
            IN  IF piece = NoPiece \/ piece.color # color
                THEN <<moves2D[n]>> ELSE <<>>])

calculateBishopMoves2D(x, z, color) ==
    LET directions == << <<1, 1>>, <<1, -1>>, <<-1, 1>>, <<-1, -1>> >>
    IN  Cat([n \in 1..4 |-> slide2D(x, z, directions[n], 1, color)])

calculateQueenMoves2D(x, z, color) ==
    calculateRookMoves2D(x, z, color) \o calculateBishopMoves2D(x, z, color)

calculateKingMoves2D(x, z, color) ==
    Cat([a \in 1..3 |->
      Cat([b \in 1..3 |->
        LET dz == a - 2
            dx == b - 2
            piece == getPieceAt2D(x + dx, z + dz)
        IN  IF dx = 0 /\ dz = 0 THEN <<>>
            ELSE IF piece = NoPiece \/ piece.color # color
            THEN << <<x + dx, z + dz>> >> ELSE <<>>])])

\* the switch of the 2D calculateValidMoves
calculateValidMoves2D(type, x, z, color) ==
    CASE type = "pawn" -> calculatePawnMoves2D(x, z, color)
      [] type = "rook" -> calculateRookMoves2D(x, z, color)
      [] type = "knight" -> calculateKnightMoves2D(x, z, color)
      [] type = "bishop" -> calculateBishopMoves2D(x, z, color)
      [] type = "queen" -> calculateQueenMoves2D(x, z, color)
      [] type = "king" -> calculateKingMoves2D(x, z, color)
      [] OTHER -> <<>>

\* the 2D movePiece: a piece on the destination goes onto the captured list
\* of the mover's colour and out of chessPieces, the mover's entry is moved to
\* the destination key
movePiece2D(sel, newPosition) ==
    [chessPieces |->
        [k \in (DOMAIN pieces \ {sel.key}) \cup {newPosition} |->
            IF k = newPosition
            THEN createPiece(newPosition, sel.type, sel.color)
            ELSE pieces[k]],
     capturedPieces |->
        IF getPieceAt2D(newPosition[1], newPosition[2]) # NoPiece
        THEN [capturedPieces EXCEPT ![sel.color] =
                Append(@, [type |-> getPieceAt2D(newPosition[1],
                                                 newPosition[2]).type,
                           color |-> getPieceAt2D(newPosition[1],
                                                  newPosition[2]).color])]
        ELSE capturedPieces]

switchTurn2D == IF currentTurn = WHITE THEN BLACK ELSE WHITE

\* the columns in which the model clicks, and the ranks of the tiles it clicks
Win2DX == {3, 4}
Win2DZ == {-6, -5, -4, -3, -2, -1}

\* the 2D handlePieceClick on the piece at key c
handlePieceClick2D(c) ==
    /\ c \in DOMAIN pieces
    /\ IF pieces[c].color # currentTurn
       THEN /\ lastEvent' = "select_wrong_turn"
            /\ UNCHANGED <<selectedPiece, validMoves>>
       ELSE /\ selectedPiece' = [key |-> c, type |-> pieces[c].type,
                                 color |-> pieces[c].color, coords |-> c]
            /\ validMoves' = calculateValidMoves2D(pieces[c].type, c[1], c[2],
                                                   pieces[c].color)
            /\ lastEvent' = "select"
    /\ UNCHANGED <<dimVars, gameVars, ops>>

\* the 2D handleTileClick on the tile (x, z), which onMouseClick calls only
\* while a piece is selected: movePiece, deselectCurrentPiece, switchTurn
handleTileClick2D(x, z) ==
    /\ selectedPiece # NoSelection
    /\ IF \E i \in 1..Len(validMoves) : validMoves[i] = <<x, z>>
       THEN /\ ops < MaxOps
            /\ pieces' = movePiece2D(selectedPiece, <<x, z>>).chessPieces
            /\ capturedPieces' =
                  movePiece2D(selectedPiece, <<x, z>>).capturedPieces
            /\ currentTurn' = switchTurn2D
            /\ moves' = moves + 1
            /\ ops' = ops + 1
            /\ lastEvent' = IF getPieceAt2D(x, z) # NoPiece
                            THEN "capture" ELSE "move"
            /\ UNCHANGED totalComplexityScore
       ELSE /\ lastEvent' = "invalid_destination"
            /\ UNCHANGED <<gameVars, ops>>
    /\ selectedPiece' = NoSelection
    /\ validMoves' = <<>>
    /\ UNCHANGED dimVars

\* the 2D deselectCurrentPiece, reached from a click on nothing
deselectCurrentPiece2D ==
    /\ selectedPiece' = NoSelection
    /\ validMoves' = <<>>
    /\ lastEvent' = "deselect"
    /\ UNCHANGED <<dimVars, gameVars, ops>>

Init2D ==
    /\ activeDimensions = <<0, 1>>
    /\ viewDimensions = <<0, 1>>
    /\ dimensionalFatigue = FALSE
    /\ sliceCoordinates = Fill(MAX_DIMENSIONS, 0)
    /\ board = generateVisibleChunks(<<0, 1>>, <<0, 1>>,
                                     Fill(MAX_DIMENSIONS, 0))
    /\ pieces = STANDARD_CHESS_LAYOUT
    /\ selectedPiece = NoSelection
    /\ validMoves = <<>>
    /\ currentTurn = WHITE
    /\ capturedPieces = [white |-> <<>>, black |-> <<>>]
    /\ totalComplexityScore = 0
    /\ viewMode = "2d"
    /\ selectorOptions = <<0, 1>>
    /\ ySelectorShown = FALSE
    /\ lastEvent = "init"
    /\ moves = 0
    /\ ops = 0

Next2D ==
    \/ \E c \in DOMAIN pieces : c[1] \in Win2DX /\ handlePieceClick2D(c)
    \/ \E x \in Win2DX, z \in Win2DZ : handleTileClick2D(x, z)
    \/ deselectCurrentPiece2D

Spec2D == Init2D /\ [][Next2D]_vars

---------------------------------------------------------------------------
(* The pawn's double step *)

\* the rank on which the pawns of a colour are placed at the start, in
\* createStandardChessPieces and in STANDARD_CHESS_LAYOUT alike
InitialPawnRank(color) == IF color = WHITE THEN -1 ELSE -6

\* C23: in the N-dimensional game and in the 2D infinite-board game, a pawn
\* standing on the rank where its colour's pawns are initially placed has the
\* two-step forward square in its valid-move set exactly when the one-step
\* and the two-step forward squares are both empty, and a pawn on any other
\* rank never has a two-step move
PawnDoubleStep ==
    selectedPiece.type = "pawn" =>
       LET direction == IF selectedPiece.color = WHITE THEN -1 ELSE 1
           one == Bump(selectedPiece.coords, 1, direction)
           two == Bump(selectedPiece.coords, 1, 2 * direction)
       IN  two \in Destinations
           <=> /\ At(selectedPiece.coords, 1)
                     = InitialPawnRank(selectedPiece.color)
               /\ getPieceAt(one) = NoPiece
               /\ getPieceAt(two) = NoPiece

---------------------------------------------------------------------------
(* Selection, turn and the pieces on and off the board, checked under Spec *)

\* C24: in every reachable state, if a piece is selected then its colour
\* equals the colour on turn, so every committed move moves a piece of the
\* colour that was on turn when the move was committed
SelectedIsOnTurn ==
    /\ [](selectedPiece # NoSelection => selectedPiece.color = currentTurn)
    /\ [][Committed =>
            /\ selectedPiece.color = currentTurn
            /\ \E d \in DOMAIN pieces' :
                  /\ pieces'[d].color = currentTurn
                  /\ (d \notin DOMAIN pieces \/ pieces[d] # pieces'[d])
                  /\ selectedPiece.key \notin DOMAIN pieces']_vars

\* after white's first move a black piece is selected, black being on turn,
\* and white pieces have been clicked in vain
BlackSelectedOnBlackTurn ==
    /\ selectedPiece # NoSelection
    /\ selectedPiece.color = BLACK
    /\ currentTurn = BLACK
    /\ moves = 1
    /\ lastEvent = "select_wrong_turn"

\* the number of pieces of a type and colour in occupancy map ps
PieceCount(ps, type, color) ==
    Cardinality({k \in DOMAIN ps : ps[k].type = type /\ ps[k].color = color})

OnBoard(ps, color) == {k \in DOMAIN ps : ps[k].color = color}

\* C26: in every reachable state the captured list of white contains only
\* black pieces and the captured list of black only white pieces; no
\* committed move removes a piece of the mover's own colour
CapturedAreEnemies ==
    /\ [](/\ \A j \in 1..Len(capturedPieces[WHITE]) :
                capturedPieces[WHITE][j].color = BLACK
          /\ \A j \in 1..Len(capturedPieces[BLACK]) :
                capturedPieces[BLACK][j].color = WHITE)
    /\ [][Committed =>
            Cardinality(OnBoard(pieces', selectedPiece.color))
               = Cardinality(OnBoard(pieces, selectedPiece.color))]_vars

\* white holds one black piece: sixteen white and fifteen black pieces are
\* on the board
WhiteHoldsBlackPiece ==
    /\ Len(capturedPieces[WHITE]) = 1
    /\ capturedPieces[WHITE][1].color = BLACK
    /\ capturedPieces[BLACK] = <<>>
    /\ Cardinality(OnBoard(pieces, WHITE)) = 16
    /\ Cardinality(OnBoard(pieces, BLACK)) = 15

---------------------------------------------------------------------------
(* The game under the view and fatigue controls: clicks on the pieces of   *)
(* two columns and on tiles next to them, the view mode, the axis          *)
(* selectors over the three base dimensions and the fatigue button.        *)

ViewCols == {1, 3}
ViewWinX == {0, 3}
ViewWinZ == {-2, 0}
ViewWinY == {0, 3}

NextView ==
    \/ \E c \in DOMAIN pieces : c[1] \in ViewCols /\ handlePieceClick(c)
    \/ \E x \in ViewWinX, z \in ViewWinZ, y \in ViewWinY :
          handleTileClick(x, z, y)
    \/ deselectCurrentPiece
    \/ \E mode \in {"2d", "3d", "slice"} : ChangeViewMode(mode)
    \/ \E slot \in 0..2, selectedDim \in 0..2 : ChangeAxis(slot, selectedDim)
    \/ ToggleFatigue

SpecView == Init /\ [][NextView]_vars

\* what calculateValidMoves would push for the selected piece in this state
GeneratedNow ==
    LET ms == movesFor(selectedPiece.type, selectedPiece.coords,
                       selectedPiece.color)
    IN  {ms[i] : i \in 1..Len(ms)}

\* the destination of a committed move is one the generator would return in
\* the state in which the move is committed
CommitIsGeneratedNow ==
    [][Committed =>
         \E d \in GeneratedNow :
            /\ d \in DOMAIN pieces'
            /\ selectedPiece.key \notin DOMAIN pieces'
            /\ pieces'[d] = createPiece(d, selectedPiece.type,
                                        selectedPiece.color)]_vars

\* C27: while a piece is selected, the cached valid-move set equals what the
\* move generator would produce for that piece on the current board under
\* the current active dimensions, view mapping and fatigue flag; toggling a
\* dimension, changing the view mode or an axis, or toggling fatigue between
\* select and destination choice never lets a destination be committed that
\* the generator would not return in the state at commit time
CacheFollowsControls ==
    /\ [](selectedPiece # NoSelection => Destinations = GeneratedNow)
    /\ CommitIsGeneratedNow

---------------------------------------------------------------------------
(* The valid-move list as a list, checked under SpecGen *)

\* C28: the valid-move list computed at select contains each destination
\* coordinate at most once, for every piece type, so that each destination
\* gets exactly one highlight
NoDuplicateDestinations ==
    \A i, j \in 1..Len(validMoves) :
       i # j => validMoves[i] # validMoves[j]

---------------------------------------------------------------------------
(* Fatigue and the size of the move set: the generators on the drawn       *)
(* boards, with the fatigue button pressed while a piece is selected.      *)

\* the drawn boards as the program starts them, dimensionalFatigue = true,
\* the piece next to the selected one a hostile one
InitFatigue ==
    /\ InitGen
    /\ dimensionalFatigue = TRUE
    /\ \A q \in DOMAIN pieces :
          q = GenPad(<<>>, Len(q)) \/ pieces[q].color = BLACK

NextFatigue ==
    \/ \E c \in DOMAIN pieces : handlePieceClick(c)
    \/ deselectCurrentPiece
    \/ ToggleFatigue

SpecFatigue == InitFatigue /\ [][NextFatigue]_vars

\* C29: enabling dimensional fatigue never enlarges a move set: for every
\* piece type, board, active-dimension set and view mapping, the valid-move
\* set computed with fatigue enabled is a subset of the set computed with
\* fatigue disabled.  The cached list was computed at select under one
\* setting and the generator is run again under the setting of the moment:
\* where the two settings differ these are the two sets of the claim, where
\* they agree the sets are equal
FatigueNeverEnlarges ==
    selectedPiece # NoSelection =>
       IF dimensionalFatigue
       THEN GeneratedNow \subseteq Destinations
       ELSE Destinations \subseteq GeneratedNow

---------------------------------------------------------------------------
(* Reset of the dimensions, checked under SpecDim *)

\* C30: a confirmed reset of dimensions, from any reachable active-dimension
\* set, ends with the active set equal to [0, 1, 2] and the view mapping
\* equal to [0, 1, 2], and leaves the pieces, the turn, the captured lists
\* and the score unchanged
ResetRestoresDefaults ==
    [][ResetDimensions =>
         /\ activeDimensions' = <<0, 1, 2>>
         /\ viewDimensions' = <<0, 1, 2>>
         /\ UNCHANGED <<pieces, currentTurn, capturedPieces,
                        totalComplexityScore>>]_vars

=============================================================================
